---- MODULE Spec2Model ----
(***************************************************************************)
(* seqpls: a grep for FASTQ reads (src/main.rs).                           *)
(*                                                                         *)
(* Byte strings are sequences of one-character strings.  A run is main():  *)
(* the parsed command line (GrepCommand) is validated, the inputs are      *)
(* opened, the output is created, a GrepProcessor is built from the        *)
(* arguments and handed to the parallel reader, whose worker threads each  *)
(* own a clone of the processor (local buffer, local counter) and share    *)
(* the writer and the counter behind their mutexes.                        *)
(***************************************************************************)
EXTENDS Naturals, Integers, Sequences, FiniteSets, Bags, TLC

\* ------------------------------------------------------------------ bounds

\* Most search options (-e -E -F -r -R -P) on one command line.
MaxArgs == 2
\* Longest read sequence handed to the predicate.
MaxSeqLen == 2
\* Most worker threads (-T) of a run.
MaxThreads == 2
\* Most records (or pairs) in the input of a run.
MaxRecords == 3
\* Records (or pairs) the parallel reader hands a worker as one batch.
BatchSize == 2
\* Most bytes the sink takes in one write call of write_all.
WriteChunk == 12

\* ------------------------------------------------------------- byte strings

None == -1

Alphabet == {"A", "C"}

SeqsUpTo(S, n) == UNION {[1..k -> S] : k \in 0..n}

\* The read sequences of the predicate's check.
Reads == SeqsUpTo(Alphabet, MaxSeqLen)

\* Values given to the fixed-string options.
PatValues == {<<>>, <<"C">>, <<"A", "C">>}
\* Values given to the regex options.
RegValues == {<<"C">>, <<".", "C">>}

Min(S) == CHOOSE x \in S : \A y \in S : x <= y

\* memmem::Finder::new(s.as_bytes()).into_owned(): the needle's bytes.
Finder_new(s) == [needle |-> s]

\* Finder::find: the offset of the needle's first occurrence, or None.
Finder_find(f, haystack) ==
    LET n == Len(f.needle)
        hits == {i \in 0..Len(haystack) :
                    /\ i + n <= Len(haystack)
                    /\ \A k \in 1..n : haystack[i + k] = f.needle[k]}
    IN  IF hits = {} THEN None ELSE Min(hits)

\* regex::bytes::Regex::new returns Err for a source that does not parse:
\* here, one with a group that is opened and not closed.
Regex_syntax_ok(s) == \A i \in DOMAIN s : s[i] # "("

\* regex::bytes::Regex::new: "." is any byte but a line feed, a letter is
\* itself.
Regex_new(s) ==
    [i \in 1..Len(s) |-> IF s[i] = "." THEN [any |-> TRUE, ch |-> "."]
                                       ELSE [any |-> FALSE, ch |-> s[i]]]

\* Regex::find: the start of the leftmost match, or None.
Regex_find(re, haystack) ==
    LET n == Len(re)
        hits == {i \in 0..Len(haystack) :
                    /\ i + n <= Len(haystack)
                    /\ \A k \in 1..n :
                          IF re[k].any THEN haystack[i + k] # "\n"
                                       ELSE haystack[i + k] = re[k].ch}
    IN  IF hits = {} THEN None ELSE Min(hits)

is_some(x) == x # None

\* ------------------------------------------------------------ command line

FixedFlags == {"e", "E", "F"}
RegexFlags == {"r", "R", "P"}

Options ==
    {[flag |-> f, value |-> v] : f \in FixedFlags, v \in PatValues}
        \cup {[flag |-> f, value |-> v] : f \in RegexFlags, v \in RegValues}

FlagRank(f) ==
    CASE f = "e" -> 1 [] f = "E" -> 2 [] f = "F" -> 3
      [] f = "r" -> 4 [] f = "R" -> 5 [] f = "P" -> 6

\* clap collects the values of each option in command-line order, so the
\* order of two different options does not matter: command lines are taken
\* with their options grouped by flag.
CommandLines(n) ==
    {cl \in SeqsUpTo(Options, n) :
        \A i \in DOMAIN cl : \A j \in DOMAIN cl :
            i < j => FlagRank(cl[i].flag) <= FlagRank(cl[j].flag)}

RECURSIVE Values(_, _)
Values(cl, f) ==
    IF cl = <<>> THEN <<>>
    ELSE IF Head(cl).flag = f THEN <<Head(cl).value>> \o Values(Tail(cl), f)
                              ELSE Values(Tail(cl), f)

\* GrepCommand::parse(): the struct clap fills in.
GrepCommand_parse(inputs, threads, cl, v) ==
    [inputs |-> inputs, threads |-> threads,
     pat1 |-> Values(cl, "e"), pat2 |-> Values(cl, "E"), pat |-> Values(cl, "F"),
     reg1 |-> Values(cl, "r"), reg2 |-> Values(cl, "R"), reg |-> Values(cl, "P"),
     invert |-> v]

bytes_mp1(a) == [i \in DOMAIN a.pat1 |-> Finder_new(a.pat1[i])]
bytes_mp2(a) == [i \in DOMAIN a.pat2 |-> Finder_new(a.pat2[i])]
bytes_pat(a) == [i \in DOMAIN a.pat2 |-> Finder_new(a.pat2[i])]
bytes_reg1(a) == [i \in DOMAIN a.reg1 |-> Regex_new(a.reg1[i])]
bytes_reg2(a) == [i \in DOMAIN a.reg2 |-> Regex_new(a.reg2[i])]
bytes_reg(a) == [i \in DOMAIN a.reg |-> Regex_new(a.reg[i])]

\* bytes_reg1 / bytes_reg2 / bytes_reg: Regex::new(s).expect(..) panics when
\* Regex::new returns Err.
expect_panics(a) ==
    \E l \in {a.reg1, a.reg2, a.reg} : \E i \in DOMAIN l : ~Regex_syntax_ok(l[i])

\* GrepArgs::validate: TRUE is Ok(()), FALSE the bail!.
validate(a) ==
    ~ (/\ a.pat1 = <<>> /\ a.pat2 = <<>> /\ a.pat = <<>>
       /\ a.reg1 = <<>> /\ a.reg2 = <<>> /\ a.reg = <<>>)

\* ----------------------------------------------------------- GrepProcessor

GrepProcessor_new(mp1, mp2, pat, re1, re2, re, invert) ==
    [mp1 |-> mp1, mp2 |-> mp2, pat |-> pat,
     re1 |-> re1, re2 |-> re2, re |-> re, invert |-> invert]

\* search_primary with `any` for `all`
search_primary_any(self, seq) ==
    IF self.mp1 = <<>> \/ seq = <<>> THEN TRUE
    ELSE \E i \in DOMAIN self.mp1 : is_some(Finder_find(self.mp1[i], seq))

search_primary(self, seq) ==
    IF self.mp1 = <<>> \/ seq = <<>> THEN TRUE
    ELSE \A i \in DOMAIN self.mp1 : is_some(Finder_find(self.mp1[i], seq))

\* search_secondary without the empty-sequence return
search_secondary_strict(self, seq) ==
    IF self.mp2 = <<>> THEN TRUE
    ELSE \E i \in DOMAIN self.mp2 : is_some(Finder_find(self.mp2[i], seq))

\* search_secondary with `all` for `any`
search_secondary_all(self, seq) ==
    IF self.mp2 = <<>> \/ seq = <<>> THEN TRUE
    ELSE \A i \in DOMAIN self.mp2 : is_some(Finder_find(self.mp2[i], seq))

search_secondary(self, seq) ==
    IF self.mp2 = <<>> \/ seq = <<>> THEN TRUE
    ELSE \E i \in DOMAIN self.mp2 : is_some(Finder_find(self.mp2[i], seq))

\* search_either looking at the primary read only
search_either_r1(self, r1, r2) ==
    IF self.pat = <<>> THEN TRUE
    ELSE \E i \in DOMAIN self.pat : is_some(Finder_find(self.pat[i], r1))

search_either(self, r1, r2) ==
    IF self.pat = <<>> THEN TRUE
    ELSE \E i \in DOMAIN self.pat :
            \/ is_some(Finder_find(self.pat[i], r1))
            \/ is_some(Finder_find(self.pat[i], r2))

\* regex_primary with `all` for `any`
regex_primary_all(self, seq) ==
    IF self.re1 = <<>> \/ seq = <<>> THEN TRUE
    ELSE \A i \in DOMAIN self.re1 : is_some(Regex_find(self.re1[i], seq))

regex_primary(self, seq) ==
    IF self.re1 = <<>> \/ seq = <<>> THEN TRUE
    ELSE \E i \in DOMAIN self.re1 : is_some(Regex_find(self.re1[i], seq))

regex_secondary(self, seq) ==
    IF self.re2 = <<>> \/ seq = <<>> THEN TRUE
    ELSE \E i \in DOMAIN self.re2 : is_some(Regex_find(self.re2[i], seq))

regex_either(self, r1, r2) ==
    IF self.re = <<>> THEN TRUE
    ELSE \E i \in DOMAIN self.re :
            \/ is_some(Regex_find(self.re[i], r1))
            \/ is_some(Regex_find(self.re[i], r2))

\* pattern_match that forgets the invert flag
pattern_match_plain(self, primary, secondary) ==
    /\ search_primary(self, primary)
    /\ search_secondary(self, secondary)
    /\ search_either(self, primary, secondary)
    /\ regex_primary(self, primary)
    /\ regex_secondary(self, secondary)
    /\ regex_either(self, primary, secondary)

pattern_match(self, primary, secondary) ==
    LET pred == /\ search_primary(self, primary)
                /\ search_secondary(self, secondary)
                /\ search_either(self, primary, secondary)
                /\ regex_primary(self, primary)
                /\ regex_secondary(self, secondary)
                /\ regex_either(self, primary, secondary)
    IN  IF self.invert THEN ~pred ELSE pred

\* the predicate as process_record calls it: no secondary read (line 141)
match_single(self, seq) == pattern_match(self, seq, <<>>)

\* the predicate as process_record_pair calls it (line 166)
match_pair(self, seq1, seq2) == pattern_match(self, seq1, seq2)

\* write_record: the record's four FASTQ lines appended to the buffer.
\* record.qual() is an Option, <<>> or <<q>>; unwrap() panics on None, after
\* the first three lines were appended.
write_record(buffer, record) ==
    LET head == buffer \o <<"@">> \o record.id \o <<"\n">> \o record.seq
                       \o <<"\n", "+", "\n">>
    IN  IF record.qual = <<>>
        THEN [buffer |-> head, panic |-> TRUE]
        ELSE [buffer |-> head \o record.qual[1] \o <<"\n">>, panic |-> FALSE]

\* process_record_pair counting a pair as two
process_record_pair_two(self, st, record1, record2) ==
    IF match_pair(self, record1.seq, record2.seq)
    THEN LET w1 == write_record(st.local_buffer, record1)
             w2 == write_record(w1.buffer, record2)
         IN  IF w1.panic
             THEN [st EXCEPT !.local_buffer = w1.buffer, !.panic = TRUE]
             ELSE IF w2.panic
             THEN [st EXCEPT !.local_buffer = w2.buffer, !.panic = TRUE]
             ELSE [st EXCEPT !.local_buffer = w2.buffer,
                             !.local_counter = st.local_counter + 2]
    ELSE st

\* ParallelProcessor::process_record on the worker's local state
\* st = [local_buffer, local_counter, panic].
process_record(self, st, record) ==
    IF match_single(self, record.seq)
    THEN LET w1 == write_record(st.local_buffer, record)
         IN  IF w1.panic
             THEN [st EXCEPT !.local_buffer = w1.buffer, !.panic = TRUE]
             ELSE [st EXCEPT !.local_buffer = w1.buffer,
                             !.local_counter = st.local_counter + 1]
    ELSE st

\* PairedParallelProcessor::process_record_pair on the worker's local state.
process_record_pair(self, st, record1, record2) ==
    IF match_pair(self, record1.seq, record2.seq)
    THEN LET w1 == write_record(st.local_buffer, record1)
             w2 == write_record(w1.buffer, record2)
         IN  IF w1.panic
             THEN [st EXCEPT !.local_buffer = w1.buffer, !.panic = TRUE]
             ELSE IF w2.panic
             THEN [st EXCEPT !.local_buffer = w2.buffer, !.panic = TRUE]
             ELSE [st EXCEPT !.local_buffer = w2.buffer,
                             !.local_counter = st.local_counter + 1]
    ELSE st

\* ------------------------------------------------------------------ results

\* How main() ends: Ok(v), Err(e), or a panic that unwinds out of main.  The
\* unit value () is the empty tuple.
Ok(v) == [kind |-> "Ok", value |-> v]
Err(e) == [kind |-> "Err", value |-> <<e>>]
Panicked(m) == [kind |-> "panic", value |-> <<m>>]

\* -------------------------------------------------------------------- state

VARIABLES
    args,       \* the parsed command line (GrepCommand and its GrepArgs)
    main_pc,    \* where main() is
    io,         \* the files main() has opened or created, in order
    proc,       \* <<>>, or <<p>> once GrepProcessor::new has built p
    result,     \* <<>>, or <<r>> once main() has ended with r
    eval,       \* <<>>, or <<e>>: one evaluation of the predicate
    input,      \* the records of the input, each <<record>> or <<record1, record2>>
    pos,        \* how many of them the reader has handed out
    wpc,        \* per worker thread: where it is
    batch,      \* per worker: the records of its batch not yet processed
    local_buffer,   \* per worker: GrepProcessor.local_buffer
    local_counter,  \* per worker: GrepProcessor.local_counter
    written,    \* per worker: bytes of local_buffer write_all has passed on
    out,        \* the bytes the sink behind global_writer has received
    global_counter, \* the value behind global_counter
    writer_lock,    \* the worker holding global_writer's mutex, or 0
    counter_lock,   \* the worker holding global_counter's mutex, or 0
    flushes     \* history: every flush, in writer-lock order: its worker, its
                \* buffer and counter when it took the lock, the bytes of the
                \* buffer the sink has received, whether it ended in an error

mainVars == <<args, main_pc, io, proc, result>>
workVars == <<pos, wpc, batch, local_buffer, local_counter, written>>
sinkVars == <<out, global_counter, writer_lock, counter_lock, flushes>>
pipeVars == <<input, pos, wpc, batch, local_buffer, local_counter, written,
              out, global_counter, writer_lock, counter_lock, flushes>>
vars == <<args, main_pc, io, proc, result, eval, input, pos, wpc, batch, local_buffer,
          local_counter, written, out, global_counter, writer_lock,
          counter_lock, flushes>>

Workers == 1..args.threads

Paired == args.inputs = 2

\* ------------------------------------------------------------------- main()

\* main that drops validate's result
Validate_unchecked ==
    /\ main_pc = "validate"
    /\ main_pc' = "open"
    /\ UNCHANGED <<args, io, proc, result, eval, pipeVars>>

\* main, lines 254-269: args.validate()? returns validate's error from main;
\* otherwise grep_paired or grep_single is called.
Validate ==
    /\ main_pc = "validate"
    /\ IF validate(args)
       THEN main_pc' = "open" /\ result' = result
       ELSE /\ main_pc' = "rejected"
            /\ result' = <<Err("At least one pattern must be specified")>>
    /\ UNCHANGED <<args, io, proc, eval, pipeVars>>

\* grep_single / grep_paired: niffler::send::from_path on each input.
OpenInputs ==
    /\ main_pc = "open"
    /\ io' = io \o (IF Paired THEN <<"open_r1", "open_r2">> ELSE <<"open_r1">>)
    /\ main_pc' = "output"
    /\ UNCHANGED <<args, proc, result, eval, pipeVars>>

\* match_output: File::create, or stdout.
MatchOutput ==
    /\ main_pc = "output"
    /\ io' = Append(io, "create_output")
    /\ main_pc' = "new"
    /\ UNCHANGED <<args, proc, result, eval, pipeVars>>

\* GrepProcessor::new(args.bytes_mp1(), ..., args.invert, output): the
\* arguments are evaluated first, and bytes_reg1 / bytes_reg2 / bytes_reg
\* panic in expect() on a regex that does not compile.
NewProcessor ==
    /\ main_pc = "new"
    /\ IF expect_panics(args)
       THEN /\ main_pc' = "panic"
            /\ result' = <<Panicked("Could not build regex from pattern: {s}")>>
            /\ proc' = proc
       ELSE /\ proc' = <<GrepProcessor_new(bytes_mp1(args), bytes_mp2(args),
                                           bytes_pat(args), bytes_reg1(args),
                                           bytes_reg2(args), bytes_reg(args),
                                           args.invert)>>
            /\ main_pc' = "run"
            /\ result' = result
    /\ UNCHANGED <<args, io, eval, pipeVars>>

\* ---------------------------------------------------- the predicate, applied

\* One record (or pair) put to the processor's predicate and to each of its
\* six checks.
Evaluate ==
    /\ main_pc = "run"
    /\ eval = <<>>
    /\ \E r1 \in Reads : \E r2 \in (IF Paired THEN Reads ELSE {<<>>}) :
          LET self == proc[1] IN
          eval' = <<[primary |-> r1, secondary |-> r2,
                     search_primary |-> search_primary(self, r1),
                     search_secondary |-> search_secondary(self, r2),
                     search_either |-> search_either(self, r1, r2),
                     regex_primary |-> regex_primary(self, r1),
                     regex_secondary |-> regex_secondary(self, r2),
                     regex_either |-> regex_either(self, r1, r2),
                     verdict |-> IF Paired THEN match_pair(self, r1, r2)
                                           ELSE match_single(self, r1)]>>
    /\ UNCHANGED <<mainVars, pipeVars>>

\* ------------------------------------------------------------ worker threads

\* The parallel reader hands an idle worker the next batch of the input.
GetBatch(w) ==
    /\ main_pc = "run"
    /\ wpc[w] = "idle"
    /\ pos < Len(input)
    /\ LET n == IF Len(input) - pos < BatchSize THEN Len(input) - pos
                                                ELSE BatchSize
       IN  /\ batch' = [batch EXCEPT ![w] = SubSeq(input, pos + 1, pos + n)]
           /\ pos' = pos + n
    /\ wpc' = [wpc EXCEPT ![w] = "process"]
    /\ UNCHANGED <<mainVars, eval, input, local_buffer, local_counter, written,
                   sinkVars>>

\* The input is exhausted: the worker's thread ends.
Exit(w) ==
    /\ main_pc = "run"
    /\ wpc[w] = "idle"
    /\ pos = Len(input)
    /\ wpc' = [wpc EXCEPT ![w] = "exit"]
    /\ UNCHANGED <<mainVars, eval, input, pos, batch, local_buffer,
                   local_counter, written, sinkVars>>

\* process_record counting a match in the global counter at once
ProcessRecord_global(w) ==
    /\ wpc[w] = "process"
    /\ LET item == Head(batch[w])
           st == [local_buffer |-> local_buffer[w],
                  local_counter |-> local_counter[w], panic |-> FALSE]
           st2 == IF Paired THEN process_record_pair(proc[1], st, item[1], item[2])
                            ELSE process_record(proc[1], st, item[1])
       IN  /\ local_buffer' = [local_buffer EXCEPT ![w] = st2.local_buffer]
           /\ global_counter' = global_counter + (st2.local_counter - st.local_counter)
           /\ wpc' = [wpc EXCEPT ![w] = IF st2.panic THEN "panic"
                                        ELSE IF Tail(batch[w]) = <<>> THEN "flush"
                                        ELSE "process"]
    /\ batch' = [batch EXCEPT ![w] = Tail(batch[w])]
    /\ UNCHANGED <<mainVars, eval, input, pos, written, local_counter, out,
                   writer_lock, counter_lock, flushes>>

\* process_record / process_record_pair on the batch's next record; after
\* the last one the reader calls on_batch_complete.  A panic in write_record
\* unwinds the worker's thread.
ProcessRecord(w) ==
    /\ wpc[w] = "process"
    /\ LET item == Head(batch[w])
           st == [local_buffer |-> local_buffer[w],
                  local_counter |-> local_counter[w], panic |-> FALSE]
           st2 == IF Paired THEN process_record_pair(proc[1], st, item[1], item[2])
                            ELSE process_record(proc[1], st, item[1])
       IN  /\ local_buffer' = [local_buffer EXCEPT ![w] = st2.local_buffer]
           /\ local_counter' = [local_counter EXCEPT ![w] = st2.local_counter]
           /\ wpc' = [wpc EXCEPT ![w] = IF st2.panic THEN "panic"
                                        ELSE IF Tail(batch[w]) = <<>> THEN "flush"
                                        ELSE "process"]
    /\ batch' = [batch EXCEPT ![w] = Tail(batch[w])]
    /\ UNCHANGED <<mainVars, eval, input, pos, written, sinkVars>>

\* the history's entry for the flush worker w starts
NewFlush(w) ==
    [worker |-> w, buffer |-> local_buffer[w], count |-> local_counter[w],
     sent |-> 0, failed |-> FALSE]

\* the history's entry of worker w's latest flush
LastFlush(w) ==
    CHOOSE i \in DOMAIN flushes :
        /\ flushes[i].worker = w
        /\ \A j \in DOMAIN flushes : j > i => flushes[j].worker # w

\* on_batch_complete writing without waiting for the writer's mutex
LockWriter_unguarded(w) ==
    /\ wpc[w] = "flush"
    /\ writer_lock' = w
    /\ flushes' = Append(flushes, NewFlush(w))
    /\ wpc' = [wpc EXCEPT ![w] = "write"]
    /\ UNCHANGED <<mainVars, eval, input, pos, batch, local_buffer,
                   local_counter, written, out, global_counter, counter_lock>>

\* on_batch_complete: self.global_writer.lock()
LockWriter(w) ==
    /\ wpc[w] = "flush"
    /\ writer_lock = 0
    /\ writer_lock' = w
    /\ flushes' = Append(flushes, NewFlush(w))
    /\ wpc' = [wpc EXCEPT ![w] = "write"]
    /\ UNCHANGED <<mainVars, eval, input, pos, batch, local_buffer,
                   local_counter, written, out, global_counter, counter_lock>>

\* on_batch_complete: one write call of global_writer.write_all(&local_buffer)
WriteSome(w) ==
    /\ wpc[w] = "write"
    /\ written[w] < Len(local_buffer[w])
    /\ LET rest == Len(local_buffer[w]) - written[w]
           n == IF rest < WriteChunk THEN rest ELSE WriteChunk
       IN  /\ out' = out \o SubSeq(local_buffer[w], written[w] + 1, written[w] + n)
           /\ written' = [written EXCEPT ![w] = written[w] + n]
           /\ flushes' = [flushes EXCEPT ![LastFlush(w)].sent = written[w] + n]
    /\ UNCHANGED <<mainVars, eval, input, pos, wpc, batch, local_buffer,
                   local_counter, global_counter, writer_lock, counter_lock>>

\* on_batch_complete adding its counter although the write failed
FailWrite_counted(w) ==
    /\ wpc[w] = "write"
    /\ writer_lock' = 0
    /\ global_counter' = global_counter + local_counter[w]
    /\ flushes' = [flushes EXCEPT ![LastFlush(w)].failed = TRUE]
    /\ wpc' = [wpc EXCEPT ![w] = "failed"]
    /\ UNCHANGED <<mainVars, eval, input, pos, batch, local_buffer,
                   local_counter, written, out, counter_lock>>

\* on_batch_complete: a write call of write_all, or flush(), returns Err: `?`
\* returns it from on_batch_complete, the guard is dropped on the way out,
\* and the worker ends with the error, its buffer and counter as they were.
FailWrite(w) ==
    /\ wpc[w] = "write"
    /\ writer_lock' = 0
    /\ flushes' = [flushes EXCEPT ![LastFlush(w)].failed = TRUE]
    /\ wpc' = [wpc EXCEPT ![w] = "failed"]
    /\ UNCHANGED <<mainVars, eval, input, pos, batch, local_buffer,
                   local_counter, written, out, global_counter, counter_lock>>

\* on_batch_complete keeping the writer's guard alive to its end
ReleaseWriter_held(w) ==
    /\ wpc[w] = "write"
    /\ written[w] = Len(local_buffer[w])
    /\ local_buffer' = [local_buffer EXCEPT ![w] = <<>>]
    /\ written' = [written EXCEPT ![w] = 0]
    /\ wpc' = [wpc EXCEPT ![w] = "count"]
    /\ UNCHANGED <<mainVars, eval, input, pos, batch, local_counter, out,
                   global_counter, writer_lock, counter_lock, flushes>>

\* on_batch_complete without self.local_buffer.clear()
ReleaseWriter_noclear(w) ==
    /\ wpc[w] = "write"
    /\ written[w] = Len(local_buffer[w])
    /\ writer_lock' = 0
    /\ written' = [written EXCEPT ![w] = 0]
    /\ wpc' = [wpc EXCEPT ![w] = "count"]
    /\ UNCHANGED <<mainVars, eval, input, pos, batch, local_buffer,
                   local_counter, out, global_counter, counter_lock, flushes>>

\* on_batch_complete: write_all has returned; global_writer.flush(), the
\* guard is dropped, self.local_buffer.clear()
ReleaseWriter(w) ==
    /\ wpc[w] = "write"
    /\ written[w] = Len(local_buffer[w])
    /\ writer_lock' = 0
    /\ local_buffer' = [local_buffer EXCEPT ![w] = <<>>]
    /\ written' = [written EXCEPT ![w] = 0]
    /\ wpc' = [wpc EXCEPT ![w] = "count"]
    /\ UNCHANGED <<mainVars, eval, input, pos, batch, local_counter, out,
                   global_counter, counter_lock, flushes>>

\* on_batch_complete: self.global_counter.lock()
LockCounter(w) ==
    /\ wpc[w] = "count"
    /\ counter_lock = 0
    /\ counter_lock' = w
    /\ wpc' = [wpc EXCEPT ![w] = "add"]
    /\ UNCHANGED <<mainVars, eval, input, pos, batch, local_buffer,
                   local_counter, written, out, global_counter, writer_lock,
                   flushes>>

\* on_batch_complete with `=` for `+=`
AddCounter_assign(w) ==
    /\ wpc[w] = "add"
    /\ global_counter' = local_counter[w]
    /\ counter_lock' = 0
    /\ local_counter' = [local_counter EXCEPT ![w] = 0]
    /\ wpc' = [wpc EXCEPT ![w] = "idle"]
    /\ UNCHANGED <<mainVars, eval, input, pos, batch, local_buffer, written,
                   out, writer_lock, flushes>>

\* on_batch_complete with `-=` for `+=`
AddCounter_sub(w) ==
    /\ wpc[w] = "add"
    /\ global_counter' = global_counter - local_counter[w]
    /\ counter_lock' = 0
    /\ local_counter' = [local_counter EXCEPT ![w] = 0]
    /\ wpc' = [wpc EXCEPT ![w] = "idle"]
    /\ UNCHANGED <<mainVars, eval, input, pos, batch, local_buffer, written,
                   out, writer_lock, flushes>>

\* on_batch_complete without self.local_counter = 0
AddCounter_keep(w) ==
    /\ wpc[w] = "add"
    /\ global_counter' = global_counter + local_counter[w]
    /\ counter_lock' = 0
    /\ wpc' = [wpc EXCEPT ![w] = "idle"]
    /\ UNCHANGED <<mainVars, eval, input, pos, batch, local_buffer,
                   local_counter, written, out, writer_lock, flushes>>

\* on_batch_complete: *guard += self.local_counter, the guard is dropped,
\* self.local_counter = 0
AddCounter(w) ==
    /\ wpc[w] = "add"
    /\ global_counter' = global_counter + local_counter[w]
    /\ counter_lock' = 0
    /\ local_counter' = [local_counter EXCEPT ![w] = 0]
    /\ wpc' = [wpc EXCEPT ![w] = "idle"]
    /\ UNCHANGED <<mainVars, eval, input, pos, batch, local_buffer, written,
                   out, writer_lock, flushes>>

\* process_parallel / process_parallel_paired returns once every worker
\* thread has ended.  When all ended normally grep_single / grep_paired
\* return Ok(()), which main returns.  A worker's panic surfaces where its
\* thread is joined: as a panic of main, or as an error that `?` returns.
\* A worker's I/O error is returned by process_parallel, and by `?` from main.
Join ==
    /\ main_pc = "run"
    /\ \A w \in Workers : wpc[w] \in {"exit", "panic", "failed"}
    /\ IF \A w \in Workers : wpc[w] = "exit"
       THEN main_pc' = "done" /\ result' = <<Ok(<<>>)>>
       ELSE \/ /\ \E w \in Workers : wpc[w] = "panic"
               /\ main_pc' = "panic"
               /\ result' = <<Panicked("worker thread")>>
            \/ /\ \E w \in Workers : wpc[w] = "panic"
               /\ main_pc' = "error"
               /\ result' = <<Err("worker thread")>>
            \/ /\ \E w \in Workers : wpc[w] = "failed"
               /\ main_pc' = "error"
               /\ result' = <<Err("I/O error")>>
    /\ UNCHANGED <<args, io, proc, eval, pipeVars>>

\* ------------------------------------------------------- one worker, in turn

RECURSIVE process_batch(_, _, _, _)
\* The reader's loop over one batch: process_record (or _pair) on each item.
process_batch(self, paired, st, items) ==
    IF items = <<>> \/ st.panic THEN st
    ELSE LET item == Head(items)
             st2 == IF paired THEN process_record_pair(self, st, item[1], item[2])
                              ELSE process_record(self, st, item[1])
         IN  process_batch(self, paired, st2, Tail(items))

RECURSIVE run_one_worker(_, _, _, _)
\* process_parallel with num_threads = 1: batch after batch, each processed
\* and flushed before the next; sink = [out, counter].  A panic ends the run
\* with the sink as it is.
run_one_worker(self, paired, items, sink) ==
    IF items = <<>> THEN sink
    ELSE LET n == IF Len(items) < BatchSize THEN Len(items) ELSE BatchSize
             st == process_batch(self, paired,
                                 [local_buffer |-> <<>>, local_counter |-> 0,
                                  panic |-> FALSE],
                                 SubSeq(items, 1, n))
         IN  IF st.panic THEN sink
             ELSE run_one_worker(self, paired, SubSeq(items, n + 1, Len(items)),
                                 [out |-> sink.out \o st.local_buffer,
                                  counter |-> sink.counter + st.local_counter])

\* ------------------------------------------------------------ specifications

\* The state main() starts in with the command line a and the input f.
Start(a, f) ==
    /\ args = a
    /\ main_pc = "validate"
    /\ io = <<>>
    /\ proc = <<>>
    /\ result = <<>>
    /\ eval = <<>>
    /\ input = f
    /\ pos = 0
    /\ wpc = [w \in 1..a.threads |-> "idle"]
    /\ batch = [w \in 1..a.threads |-> <<>>]
    /\ local_buffer = [w \in 1..a.threads |-> <<>>]
    /\ local_counter = [w \in 1..a.threads |-> 0]
    /\ written = [w \in 1..a.threads |-> 0]
    /\ out = <<>>
    /\ global_counter = 0
    /\ writer_lock = 0
    /\ counter_lock = 0
    /\ flushes = <<>>

Digits == <<"1", "2", "3", "4", "5", "6", "7", "8", "9">>

\* A record as the reader hands it out (trait Record: id, seq, qual): its
\* quality is Some line as long as its sequence, or None.
Record(i, seq, q) ==
    [id |-> <<Digits[i]>>, seq |-> seq,
     qual |-> IF q THEN <<[k \in DOMAIN seq |-> "I"]>> ELSE <<>>]

\* The primary reads of a run's input, with or without quality, and the
\* secondary read of its pairs.
RunReads ==
    {[seq |-> <<"A">>, q |-> TRUE], [seq |-> <<"C">>, q |-> TRUE],
     [seq |-> <<"C">>, q |-> FALSE]}
Mate == <<"A", "C">>

\* The inputs of a run: up to MaxRecords records, or pairs of one name.
RunInputs(inputs) ==
    {[i \in DOMAIN f |-> IF inputs = 2
                            THEN <<Record(i, f[i].seq, f[i].q),
                                   Record(i, Mate, f[i].q)>>
                            ELSE <<Record(i, f[i].seq, f[i].q)>>] :
        f \in SeqsUpTo(RunReads, MaxRecords)}

\* The command lines of a run: no option at all, -e C, or -r with a regex
\* that does not compile.
RunCommandLines ==
    {<<>>, <<[flag |-> "e", value |-> <<"C">>]>>,
     <<[flag |-> "r", value |-> <<"(">>]>>}

RunArgs ==
    {GrepCommand_parse(i, t, cl, v) :
        i \in 1..2, t \in 1..MaxThreads, cl \in RunCommandLines, v \in BOOLEAN}

\* A whole run.
Init == \E a \in RunArgs : \E f \in RunInputs(a.inputs) : Start(a, f)

Next ==
    \/ Validate
    \/ OpenInputs
    \/ MatchOutput
    \/ NewProcessor
    \/ \E w \in Workers : GetBatch(w)
    \/ \E w \in Workers : Exit(w)
    \/ \E w \in Workers : ProcessRecord(w)
    \/ \E w \in Workers : LockWriter(w)
    \/ \E w \in Workers : WriteSome(w)
    \/ \E w \in Workers : FailWrite(w)
    \/ \E w \in Workers : ReleaseWriter(w)
    \/ \E w \in Workers : LockCounter(w)
    \/ \E w \in Workers : AddCounter(w)
    \/ Join

Spec == Init /\ [][Next]_vars

\* main()'s own steps
MainThread ==
    Validate \/ OpenInputs \/ MatchOutput \/ NewProcessor \/ Join

\* the steps of worker thread w that do not depend on the sink failing
WorkerThread(w) ==
    /\ w \in Workers
    /\ \/ GetBatch(w) \/ Exit(w) \/ ProcessRecord(w) \/ LockWriter(w)
       \/ WriteSome(w) \/ ReleaseWriter(w) \/ LockCounter(w) \/ AddCounter(w)

\* The runs whose scheduling is looked at: every command line of a run,
\* without -v, which changes the records selected and nothing else.
InitFair ==
    \E a \in {x \in RunArgs : ~x.invert} :
        \E f \in RunInputs(a.inputs) : Start(a, f)

\* A whole run under a scheduler that lets every thread that can take a
\* step take one in the end.
FairSpec ==
    /\ InitFair /\ [][Next]_vars
    /\ WF_vars(MainThread)
    /\ \A w \in 1..MaxThreads : WF_vars(WorkerThread(w))


ArgSpace(threads, n) ==
    {GrepCommand_parse(i, t, cl, v) :
        i \in 1..2, t \in threads, cl \in CommandLines(n), v \in BOOLEAN}

\* The predicate on one record: every command line of up to MaxArgs options.
InitMatch == \E a \in ArgSpace({1}, MaxArgs) : Start(a, <<>>)

NextMatch ==
    \/ Validate
    \/ OpenInputs
    \/ MatchOutput
    \/ NewProcessor
    \/ Evaluate

SpecMatch == InitMatch /\ [][NextMatch]_vars

\* ------------------------------------------------------------------- claims

\* p is a substring of s
Occurs(p, s) ==
    \E i \in 1..(Len(s) + 1) :
        i + Len(p) - 1 <= Len(s) /\ SubSeq(s, i, i + Len(p) - 1) = p

Needles(l) == [i \in DOMAIN l |-> l[i].needle]
AllOccur(l, s) == \A i \in DOMAIN l : Occurs(l[i], s)
SomeOccurs(l, s) == \E i \in DOMAIN l : Occurs(l[i], s)

Evaluated == eval # <<>>

\* the conjunction of the six checks of the evaluation e
SixChecks(e) ==
    /\ e.search_primary /\ e.search_secondary /\ e.search_either
    /\ e.regex_primary /\ e.regex_secondary /\ e.regex_either

\* the processor has primary-fixed patterns and nothing else, invert off
OnlyPrimaryFixed(self) ==
    /\ self.mp1 # <<>> /\ self.mp2 = <<>> /\ self.pat = <<>>
    /\ self.re1 = <<>> /\ self.re2 = <<>> /\ self.re = <<>>
    /\ ~self.invert

\* C3: on every evaluated record or pair the verdict with invert set is the
\* negation of the verdict with invert clear, and the verdict is the
\* conjunction of the six checks, negated when invert is set.
C3_InvertLaw ==
    Evaluated =>
        LET e == eval[1]
            self == proc[1]
            on == pattern_match([self EXCEPT !.invert = TRUE], e.primary, e.secondary)
            off == pattern_match([self EXCEPT !.invert = FALSE], e.primary, e.secondary)
        IN  /\ on = ~off
            /\ off = SixChecks(e)
            /\ e.verdict = (IF self.invert THEN ~SixChecks(e) ELSE SixChecks(e))

\* C3 witness: an inverted run selects a record that one of the checks fails.
C3_Witness ==
    /\ Evaluated
    /\ proc[1].invert
    /\ ~SixChecks(eval[1])
    /\ eval[1].verdict

\* C4 as stated: with only primary-fixed patterns, a record matches iff every
\* pattern is a substring of its primary sequence.
C4_Original ==
    (Evaluated /\ OnlyPrimaryFixed(proc[1])) =>
        (eval[1].verdict <=> AllOccur(Needles(proc[1].mp1), eval[1].primary))

\* C4 amended: with only primary-fixed patterns, a record matches iff its
\* primary sequence is empty or every pattern is a substring of it.
C4_PrimaryFixedConjunction ==
    (Evaluated /\ OnlyPrimaryFixed(proc[1])) =>
        (eval[1].verdict <=>
            \/ eval[1].primary = <<>>
            \/ AllOccur(Needles(proc[1].mp1), eval[1].primary))

\* C4 witness: a non-empty sequence holding one of two patterns and not the
\* other is rejected.
C4_Witness ==
    /\ Evaluated
    /\ OnlyPrimaryFixed(proc[1])
    /\ eval[1].primary # <<>>
    /\ SomeOccurs(Needles(proc[1].mp1), eval[1].primary)
    /\ ~AllOccur(Needles(proc[1].mp1), eval[1].primary)
    /\ ~eval[1].verdict

\* C5 as stated: single-end input with secondary-fixed patterns: the
\* secondary-fixed check is false and, invert off, the record does not match.
C5_Original ==
    (Evaluated /\ ~Paired /\ proc[1].mp2 # <<>>) =>
        /\ ~eval[1].search_secondary
        /\ (~proc[1].invert => ~eval[1].verdict)

\* C5 amended: single-end input with secondary-fixed patterns: the secondary
\* sequence is empty and the secondary-fixed check is true, so with invert
\* off the record matches exactly when the other five checks hold.
C5_EmptySecondaryVacuous ==
    (Evaluated /\ ~Paired /\ proc[1].mp2 # <<>>) =>
        LET e == eval[1] IN
        /\ e.secondary = <<>>
        /\ e.search_secondary
        /\ (~proc[1].invert =>
                (e.verdict <=> /\ e.search_primary /\ e.search_either
                               /\ e.regex_primary /\ e.regex_secondary
                               /\ e.regex_either))

\* C5 witness: a single-end record matches although a secondary-fixed
\* pattern that is not the empty string is configured.
C5_Witness ==
    /\ Evaluated /\ ~Paired
    /\ \E i \in DOMAIN proc[1].mp2 : proc[1].mp2[i].needle # <<>>
    /\ ~proc[1].invert
    /\ eval[1].verdict

\* C6: the secondary-fixed check is true when the secondary sequence or the
\* secondary-fixed list is empty, and otherwise exactly when some
\* secondary-fixed pattern is a substring of the secondary sequence.
C6_SecondaryFixedDisjunction ==
    Evaluated =>
        LET e == eval[1]
            self == proc[1]
        IN  e.search_secondary <=>
                \/ e.secondary = <<>>
                \/ self.mp2 = <<>>
                \/ SomeOccurs(Needles(self.mp2), e.secondary)

\* C6 witness: a non-empty secondary sequence holds one of two patterns, not
\* the other, and passes the check.
C6_Witness ==
    /\ Evaluated
    /\ eval[1].secondary # <<>>
    /\ Len(proc[1].mp2) = 2
    /\ SomeOccurs(Needles(proc[1].mp2), eval[1].secondary)
    /\ ~AllOccur(Needles(proc[1].mp2), eval[1].secondary)
    /\ eval[1].search_secondary

\* C7: with a non-empty either list (the processor's pat), the either-fixed
\* check is true exactly when some pattern of it is a substring of the
\* primary or of the secondary sequence; for single-end input, of the primary
\* sequence.
C7_EitherDisjunction ==
    (Evaluated /\ proc[1].pat # <<>>) =>
        LET e == eval[1]
            pat == Needles(proc[1].pat)
        IN  /\ e.search_either <=>
                    (SomeOccurs(pat, e.primary) \/ SomeOccurs(pat, e.secondary))
            /\ ~Paired => (e.search_either <=> SomeOccurs(pat, e.primary))

\* C7 witness: a pair matches whose secondary read alone holds the pattern.
C7_Witness ==
    /\ Evaluated /\ Paired
    /\ proc[1].pat # <<>>
    /\ ~SomeOccurs(Needles(proc[1].pat), eval[1].primary)
    /\ SomeOccurs(Needles(proc[1].pat), eval[1].secondary)
    /\ eval[1].search_either
    /\ ~proc[1].invert
    /\ eval[1].verdict

\* C8 as stated: the processor's either list is the user's either patterns
\* (-F), whatever the secondary-only patterns (-E) are.
C8_EitherListIsOwnInput ==
    proc # <<>> => Needles(proc[1].pat) = args.pat

\* ---------------------------------------------------------- claims on a run

\* the predicate's verdict on an item of the input
Matched(item) ==
    IF Paired THEN match_pair(proc[1], item[1].seq, item[2].seq)
              ELSE match_single(proc[1], item[1].seq)

RECURSIVE Concat(_)
Concat(bufs) == IF bufs = <<>> THEN <<>> ELSE Head(bufs) \o Concat(Tail(bufs))

Buffers(fl) == [i \in DOMAIN fl |-> fl[i].buffer]

\* of each flush, the part of its buffer the sink has received
Sent(fl) == [i \in DOMAIN fl |-> SubSeq(fl[i].buffer, 1, fl[i].sent)]

\* the flushes that have released the writer's mutex
Completed ==
    IF writer_lock = 0 THEN flushes ELSE SubSeq(flushes, 1, Len(flushes) - 1)

\* no two workers inside the writer's critical section
OneWriter ==
    /\ \A v \in Workers : \A w \in Workers :
          (wpc[v] = "write" /\ wpc[w] = "write") => v = w
    /\ \A w \in Workers : wpc[w] = "write" <=> writer_lock = w

RECURSIVE Lines(_, _)
\* the lines of a text, each ended by a line feed
Lines(bytes, line) ==
    IF bytes = <<>> THEN (IF line = <<>> THEN <<>> ELSE <<line>>)
    ELSE IF Head(bytes) = "\n" THEN <<line>> \o Lines(Tail(bytes), <<>>)
                               ELSE Lines(Tail(bytes), Append(line, Head(bytes)))

\* the four-line FASTQ records of a text, as a reader takes them
ReadFastq(bytes) ==
    LET ls == Lines(bytes, <<>>) IN
    [i \in 1..(Len(ls) \div 4) |->
        [id |-> Tail(ls[4 * i - 3]), seq |-> ls[4 * i - 2],
         qual |-> <<ls[4 * i]>>,
         framed |-> (Head(ls[4 * i - 3]) = "@" /\ ls[4 * i - 1] = <<"+">>)]]

\* the multiset of a sequence's elements
BagOfSeq(q) ==
    [x \in {q[i] : i \in DOMAIN q} |-> Cardinality({i \in DOMAIN q : q[i] = x})]

\* C1: once every worker has ended, the global counter is the number of
\* input records (pairs) on which pattern_match returned true.
C1_FinalCount ==
    main_pc = "done" =>
        global_counter = Cardinality({i \in DOMAIN input : Matched(input[i])})

\* C1 witness: a run of two workers or more ends having counted two records,
\* flushed by different workers, and passed over another.
C1_Witness ==
    /\ main_pc = "done"
    /\ args.threads >= 2
    /\ global_counter >= 2
    /\ \E i \in DOMAIN input : ~Matched(input[i])
    /\ \E i \in DOMAIN flushes : \E j \in DOMAIN flushes :
          /\ flushes[i].worker # flushes[j].worker
          /\ flushes[i].buffer # <<>> /\ flushes[j].buffer # <<>>

\* C2 as stated: in every state the output is the whole buffers of the
\* flushes so far (up to the completed ones, or up to the one in progress),
\* in writer-lock order, and one worker at most is writing.
C2_Original ==
    /\ \/ out = Concat(Buffers(Completed))
       \/ out = Concat(Buffers(flushes))
    /\ OneWriter

\* C2 amended: in every state the output is, flush after flush in
\* writer-lock order, the whole buffer of each completed flush, and of a
\* flush in progress or ended by an I/O error the part of its buffer written
\* so far; one worker at most is writing.
C2_AtomicFlushes ==
    /\ out = Concat(Sent(flushes))
    /\ \A i \in DOMAIN flushes :
          \/ flushes[i].sent = Len(flushes[i].buffer)
          \/ flushes[i].failed
          \/ i = Len(flushes) /\ writer_lock # 0
    /\ writer_lock # 0 =>
          /\ flushes[Len(flushes)].worker = writer_lock
          /\ flushes[Len(flushes)].buffer = local_buffer[writer_lock]
          /\ flushes[Len(flushes)].sent = written[writer_lock]
    /\ OneWriter

\* C2 witness: a worker is part-way through writing its buffer while another
\* worker, its own buffer not empty, waits for the writer's mutex.
C2_Witness ==
    /\ writer_lock # 0
    /\ written[writer_lock] > 0
    /\ written[writer_lock] < Len(local_buffer[writer_lock])
    /\ \E w \in Workers : wpc[w] = "flush" /\ local_buffer[w] # <<>>

\* C9: a finished run of any number of workers has the global count of the
\* run of one worker on the same input and configuration, and its output
\* holds the same multiset of records.
C9_WorkerCountIndependent ==
    main_pc = "done" =>
        LET one == run_one_worker(proc[1], Paired, input,
                                  [out |-> <<>>, counter |-> 0])
        IN  /\ global_counter = one.counter
            /\ BagOfSeq(ReadFastq(out)) = BagOfSeq(ReadFastq(one.out))
            /\ Len(out) = Len(one.out)

\* C9 witness: a run of several workers ends with two records or more in an
\* order that is not the one worker's.
C9_Witness ==
    /\ main_pc = "done"
    /\ args.threads >= 2
    /\ global_counter >= 2
    /\ out # run_one_worker(proc[1], Paired, input,
                            [out |-> <<>>, counter |-> 0]).out

\* no pattern and no regex of any of the six kinds on the command line
NoCriteria ==
    \A l \in {args.pat1, args.pat2, args.pat, args.reg1, args.reg2, args.reg} :
        Len(l) = 0

\* C10: a command line without any pattern or regex goes from validation to
\* rejection only: no input is opened, no output created, no processor
\* built, no record handed out, processed, written or counted.
C10_RejectedBeforeIO ==
    NoCriteria =>
        /\ main_pc \in {"validate", "rejected"}
        /\ io = <<>>
        /\ proc = <<>>
        /\ pos = 0
        /\ out = <<>> /\ global_counter = 0 /\ flushes = <<>>
        /\ \A w \in Workers : wpc[w] = "idle" /\ local_buffer[w] = <<>>

\* C10 witness: such a command line has been rejected, with input waiting.
C10_Witness ==
    /\ NoCriteria
    /\ main_pc = "rejected"
    /\ input # <<>>

\* ------------------------------------------------------ claims on failures

\* a regex of the command line does not compile
InvalidRegex ==
    \E l \in {args.reg1, args.reg2, args.reg} :
        \E i \in DOMAIN l : ~Regex_syntax_ok(l[i])

\* C11 as stated: with a regex that does not compile the run ends with a
\* returned error, and it ends before the output is opened or created and
\* before any record is read.
C11_InvalidRegexFailsFast ==
    InvalidRegex =>
        /\ \A i \in DOMAIN io : io[i] # "create_output"
        /\ pos = 0
        /\ proc = <<>>
        /\ result # <<>> => result[1].kind = "Err"

\* the item (record or pair) has a record without quality
MissingQuality(item) == \E k \in DOMAIN item : item[k].qual = <<>>

\* C12 as stated: emitting a matching record without quality fails with a
\* returned error, so no worker thread ever panics, and no byte of such a
\* record is in the shared output.
C12_MissingQualityReturnsError ==
    /\ \A w \in Workers : wpc[w] # "panic"
    /\ \A i \in DOMAIN input :
          MissingQuality(input[i]) =>
              \A k \in DOMAIN out : <<out[k]>> # input[i][1].id

\* C13 as stated: a successful run returns the final value of the global
\* counter to its caller.
C13_ReturnsGlobalCount ==
    main_pc = "done" => result = <<Ok(<<global_counter>>)>>

\* C14: the step in which a worker's flush fails changes neither the output
\* nor the global counter and drops the writer's mutex; from then on the
\* worker stays ended, without a retry, its local counter never added: the
\* global counter grows only by the local counter of a worker whose write
\* succeeded; and no step takes back a byte the output has received.
C14_FailedFlushAborts ==
    [][/\ \A w \in Workers :
             (wpc[w] = "write" /\ wpc'[w] = "failed") =>
                 /\ out' = out
                 /\ global_counter' = global_counter
                 /\ writer_lock' = 0
                 /\ local_counter'[w] = local_counter[w]
       /\ \A w \in Workers :
             wpc[w] = "failed" =>
                 /\ wpc'[w] = "failed"
                 /\ local_counter'[w] = local_counter[w]
                 /\ writer_lock' # w /\ counter_lock' # w
       /\ global_counter' # global_counter =>
             \E w \in Workers :
                 /\ wpc[w] = "add"
                 /\ global_counter' = global_counter + local_counter[w]
       /\ Len(out') >= Len(out)
       /\ SubSeq(out', 1, Len(out)) = out]_vars

\* C14 witness: a worker's flush of a counted record has failed after an
\* earlier flush was written whole and counted; the run ended with the error.
C14_Witness ==
    /\ main_pc = "error"
    /\ \E w \in Workers : wpc[w] = "failed" /\ local_counter[w] > 0
    /\ global_counter > 0
    /\ \E i \in DOMAIN flushes :
          /\ ~flushes[i].failed
          /\ flushes[i].buffer # <<>>
          /\ SubSeq(out, 1, Len(flushes[i].buffer)) = flushes[i].buffer

\* ------------------------------------------------- claims on worker steps

\* the step is worker w's process_record / process_record_pair
ProcessingStep(w) == wpc[w] = "process" /\ batch'[w] # batch[w]

\* C15: a processing step of a worker leaves the output, the global counter,
\* both mutexes and every other worker's local state as they were, and the
\* worker holds neither mutex before or after it.
C15_ProcessingIsLocal ==
    [][\A w \in Workers :
          ProcessingStep(w) =>
              /\ out' = out
              /\ global_counter' = global_counter
              /\ writer_lock' = writer_lock /\ writer_lock # w
              /\ counter_lock' = counter_lock /\ counter_lock # w
              /\ \A v \in Workers \ {w} :
                    /\ local_buffer'[v] = local_buffer[v]
                    /\ local_counter'[v] = local_counter[v]
                    /\ written'[v] = written[v]
                    /\ batch'[v] = batch[v]
                    /\ wpc'[v] = wpc[v]]_vars

\* C15 witness: a worker has put the first record of its batch into its
\* buffer and counted it, with more of the batch to process, while another
\* worker is writing to the sink.
C15_Witness ==
    \E w \in Workers :
        /\ wpc[w] = "process"
        /\ batch[w] # <<>>
        /\ local_counter[w] > 0 /\ local_buffer[w] # <<>>
        /\ writer_lock \notin {0, w}
        /\ written[writer_lock] > 0

\* flush i of the history is still between lock() and the counter's update
InFlight(i) ==
    LET w == flushes[i].worker
    IN  wpc[w] \in {"write", "count", "add"} /\ LastFlush(w) = i

RECURSIVE SumCounts(_, _)
\* the counters of the flushes 1..n of the history that ran to their end
SumCounts(fl, n) ==
    IF n = 0 THEN 0
    ELSE SumCounts(fl, n - 1)
            + (IF fl[n].failed \/ InFlight(n) THEN 0 ELSE fl[n].count)

\* the records (single-end) or pairs (paired-end) a text holds whole
Items(bytes) == Len(ReadFastq(bytes)) \div (IF Paired THEN 2 ELSE 1)

\* C16: a flush that ran to its end has put its whole buffer into the
\* output and its counter into the global counter, once: the global counter
\* is the sum of the counters of those flushes; between releasing the writer
\* and adding the counter the worker's buffer is empty and its counter still
\* the flush's; afterwards both are empty and zero; each flush counted the
\* records it wrote, and no record is in two flushes or twice in one.
C16_FlushExactlyOnce ==
    /\ out = Concat(Sent(flushes))
    /\ global_counter = SumCounts(flushes, Len(flushes))
    /\ \A i \in DOMAIN flushes :
          /\ (~flushes[i].failed /\ wpc[flushes[i].worker] # "write")
                => flushes[i].sent = Len(flushes[i].buffer)
          /\ flushes[i].count = Items(flushes[i].buffer)
    /\ \A w \in Workers :
          /\ wpc[w] \in {"count", "add"} =>
                /\ local_buffer[w] = <<>> /\ written[w] = 0
                /\ local_counter[w] = flushes[LastFlush(w)].count
          /\ wpc[w] \in {"idle", "exit"} =>
                /\ local_buffer[w] = <<>> /\ written[w] = 0
                /\ local_counter[w] = 0
    /\ LET recs == ReadFastq(Concat(Buffers(flushes)))
       IN  \A i \in DOMAIN recs : \A j \in DOMAIN recs :
               recs[i] = recs[j] => i = j

\* C16 witness: one worker has run two flushes to their end, each of a
\* buffer with records in it, and the global counter is the sum of the two.
C16_Witness ==
    \E i \in DOMAIN flushes : \E j \in DOMAIN flushes :
        /\ i < j
        /\ flushes[i].worker = flushes[j].worker
        /\ wpc[flushes[i].worker] = "idle"
        /\ flushes[i].count > 0 /\ flushes[j].count > 0
        /\ ~flushes[i].failed /\ ~flushes[j].failed
        /\ global_counter = flushes[i].count + flushes[j].count
        /\ out = flushes[i].buffer \o flushes[j].buffer

\* C17: no step of any worker, in any interleaving, lowers the global
\* counter.
C17_CounterNeverDecreases ==
    [][global_counter' >= global_counter]_vars

\* C17 witness: the counter has grown by one worker's matches and another
\* worker, holding the counter's mutex, is about to add its own.
C17_Witness ==
    /\ global_counter > 0
    /\ counter_lock # 0
    /\ wpc[counter_lock] = "add"
    /\ local_counter[counter_lock] > 0
    /\ \E i \in DOMAIN flushes :
          /\ flushes[i].worker # counter_lock
          /\ flushes[i].count = global_counter

\* ------------------------------------------------ claims on the regex checks

\* the regex with source src matches somewhere in s: "." stands for any byte
\* but a line feed, any other character for itself
Matches(src, s) ==
    \E i \in 1..(Len(s) + 1) :
        /\ i + Len(src) - 1 <= Len(s)
        /\ \A k \in DOMAIN src :
              IF src[k] = "." THEN s[i + k - 1] # "\n" ELSE s[i + k - 1] = src[k]

SomeMatches(l, s) == \E i \in DOMAIN l : Matches(l[i], s)
AllMatch(l, s) == \A i \in DOMAIN l : Matches(l[i], s)

\* C18 as stated: with primary regexes (-r) the primary-regex check is true
\* exactly when one of them matches the primary sequence; without, it is
\* true; the same for the secondary regexes (-R) and the secondary sequence.
C18_Original ==
    Evaluated =>
        LET e == eval[1] IN
        /\ e.regex_primary <=>
                (args.reg1 = <<>> \/ SomeMatches(args.reg1, e.primary))
        /\ e.regex_secondary <=>
                (args.reg2 = <<>> \/ SomeMatches(args.reg2, e.secondary))

\* C18 amended: with primary regexes (-r) the primary-regex check is true
\* exactly when the primary sequence is empty or one of them matches it;
\* without, it is true; the same for the secondary regexes (-R) and the
\* secondary sequence.
C18_RegexDisjunction ==
    Evaluated =>
        LET e == eval[1] IN
        /\ e.regex_primary <=>
                \/ args.reg1 = <<>>
                \/ e.primary = <<>>
                \/ SomeMatches(args.reg1, e.primary)
        /\ e.regex_secondary <=>
                \/ args.reg2 = <<>>
                \/ e.secondary = <<>>
                \/ SomeMatches(args.reg2, e.secondary)

\* C18 witness: a primary sequence that is not empty passes the check on one
\* of two primary regexes, the other not matching it.
C18_Witness ==
    /\ Evaluated
    /\ eval[1].primary # <<>>
    /\ Len(args.reg1) = 2
    /\ SomeMatches(args.reg1, eval[1].primary)
    /\ ~AllMatch(args.reg1, eval[1].primary)
    /\ eval[1].regex_primary

\* -------------------------------------------- claims on counter and output

\* the records (single-end) or pairs (paired-end) of which a text holds
\* every byte, the text starting at a record's first byte
WholeItems(bytes) ==
    Cardinality({k \in DOMAIN bytes : bytes[k] = "\n"})
        \div (IF Paired THEN 8 ELSE 4)

RECURSIVE InOutput(_, _)
\* the records or pairs whose bytes are all in the output, over the flushes
\* 1..n of the history
InOutput(fl, n) ==
    IF n = 0 THEN 0
    ELSE InOutput(fl, n - 1) + WholeItems(SubSeq(fl[n].buffer, 1, fl[n].sent))

\* a record as a reader of the output sees it
AsRead(record) ==
    [id |-> record.id, seq |-> record.seq, qual |-> record.qual, framed |-> TRUE]

\* the four lines of a record of the output
FourLines(rec) ==
    <<"@">> \o rec.id \o <<"\n">> \o rec.seq \o <<"\n", "+", "\n">>
            \o rec.qual[1] \o <<"\n">>

\* every flush's buffer is, item after item, matched records of the input
\* (single-end) or matched pairs, the primary record and right after it the
\* secondary one (paired-end), and the flush's counter is their number
WrittenAsCounted ==
    \A i \in DOMAIN flushes :
        LET recs == ReadFastq(flushes[i].buffer)
            n == flushes[i].count
        IN  /\ flushes[i].buffer = Concat([k \in DOMAIN recs |-> FourLines(recs[k])])
            /\ IF Paired
               THEN /\ Len(recs) = 2 * n
                    /\ \A k \in 1..n : \E j \in DOMAIN input :
                           /\ Matched(input[j])
                           /\ recs[2 * k - 1] = AsRead(input[j][1])
                           /\ recs[2 * k] = AsRead(input[j][2])
               ELSE /\ Len(recs) = n
                    /\ \A k \in 1..n : \E j \in DOMAIN input :
                           /\ Matched(input[j])
                           /\ recs[k] = AsRead(input[j][1])

\* C19 as stated: the global counter is at most the number of matched
\* records or pairs whose bytes are in the output, and equal to it whenever
\* no worker is between releasing the writer's mutex and updating the
\* counter; a matched pair is written primary first, secondary right after,
\* and counted once.
C19_Original ==
    /\ global_counter <= InOutput(flushes, Len(flushes))
    /\ (\A w \in Workers : wpc[w] \notin {"count", "add"})
          => global_counter = InOutput(flushes, Len(flushes))
    /\ WrittenAsCounted

\* C19 amended: the global counter is at most the number of matched records
\* or pairs whose bytes are in the output, and equal to it whenever no
\* worker is between acquiring the writer's mutex and updating the counter
\* and no flush has ended in an I/O error; a matched pair is written primary
\* first, secondary right after, and counted once.
C19_CounterBehindOutput ==
    /\ global_counter <= InOutput(flushes, Len(flushes))
    /\ (\A w \in Workers : wpc[w] \notin {"write", "count", "add", "failed"})
          => global_counter = InOutput(flushes, Len(flushes))
    /\ WrittenAsCounted

\* C19 witness: in a paired run the pairs of one flush are written and
\* counted, and the pair of another worker's flush is in the output, that
\* worker not yet holding the counter's mutex.
C19_Witness ==
    /\ Paired
    /\ global_counter > 0
    /\ global_counter < InOutput(flushes, Len(flushes))
    /\ \E w \in Workers : wpc[w] = "count" /\ local_counter[w] > 0
    /\ writer_lock = 0

\* ---------------------------------------------------------- claims on locks

\* worker w is in on_batch_complete
Flushing(w) ==
    w \in Workers /\ wpc[w] \in {"flush", "write", "count", "add"}

\* worker w is back from on_batch_complete, holding no mutex
BackToIdle(w) ==
    w \in Workers /\ wpc[w] = "idle" /\ writer_lock # w /\ counter_lock # w

\* worker w's flush has ended in an I/O error
FlushFailed(w) == w \in Workers /\ wpc[w] = "failed"

\* main() has ended: no worker is in a flush and no mutex is held
Ended ==
    /\ main_pc \in {"rejected", "panic", "error", "done"}
    /\ \A w \in Workers : ~Flushing(w)
    /\ writer_lock = 0 /\ counter_lock = 0

\* C20: no worker ever holds the writer's and the counter's mutex together;
\* a worker leaves a flush only by coming back to idle holding no mutex, or
\* by the flush's I/O error; and under fair scheduling every run ends, no
\* worker in a flush and both mutexes free: so every flush a worker has
\* begun ends with the worker back at idle, unless it fails.
C20_NoDeadlock ==
    /\ [](\A w \in Workers : ~(writer_lock = w /\ counter_lock = w))
    /\ [][\A w \in Workers :
             (Flushing(w) /\ ~Flushing(w)') => (BackToIdle(w)' \/ FlushFailed(w)')]_vars
    /\ <>[]Ended

\* C20 witness: one worker holds the writer's mutex and writes while another
\* holds the counter's mutex.
C20_Witness ==
    /\ writer_lock # 0
    /\ counter_lock # 0
    /\ writer_lock # counter_lock
    /\ written[writer_lock] > 0
    /\ local_counter[counter_lock] > 0

====
